---- MODULE Spec2Model ----
(***************************************************************************)
(* Guild-settings cache, its durable table, the guild lifecycle handlers,  *)
(* the prefix command and the presence loop of graf_zeppelin.              *)
(*                                                                         *)
(*   src/src/handlers/event_handler.rs   guild_create, guild_delete,       *)
(*                                       cache_ready, set_activity         *)
(*   src/src/commands/utilities.rs       prefix                            *)
(*                                                                         *)
(* Every handler is an asynchronous task; the event dispatcher runs them   *)
(* on a thread pool (event_handler.rs:26-27), so their steps interleave.   *)
(* A step of the model is one access to shared state (the settings map,    *)
(* the table, the atomic flag) together with the purely local code around  *)
(* it.                                                                     *)
(***************************************************************************)
EXTENDS Integers, Sequences, FiniteSets, Bags, TLC

\* ------------------------------------------------------------------ bounds
\* Number of handler tasks that can be suspended in mid-flight at once.
MaxTasks == 2
\* Width of the scaled-down u64 / i64 identifiers (64 in the program).
IdBits == 3

\* -------------------------------------------------------------- identifiers
\* Guild ids and user ids as the gateway delivers them (u64).  Each set holds
\* one value below and one value above the sign bit of the signed column type.
Workspaces == {1, 2^IdBits - 2}
Users == {1, 2^IdBits - 1}

\* `i64::from(id)` / `id.get() as i64`: two's-complement reinterpretation.
ToI64(x) == IF x >= 2^(IdBits - 1) THEN x - 2^IdBits ELSE x
\* `x as u64`
ToU64(y) == y % (2^IdBits)

StoreKeys == {ToI64(w) : w \in Workspaces}

\* ------------------------------------------------------------------ strings
\* A string is a sequence of characters.
Whitespace == {" ", "\t"}

\* Raw argument text handed to the prefix command.
RawArgs ==
    { <<>>, <<"-">>, <<"!">>, <<" ", "!">>,
      <<"!", " ", "!">>, <<"!", "\t", "!">> }

RECURSIVE TrimStart(_)
TrimStart(s) ==
    IF s # <<>> /\ Head(s) \in Whitespace THEN TrimStart(Tail(s)) ELSE s

RECURSIVE TrimEnd(_)
TrimEnd(s) ==
    IF s # <<>> /\ s[Len(s)] \in Whitespace
    THEN TrimEnd(SubSeq(s, 1, Len(s) - 1))
    ELSE s

\* Args::trimmed: the argument with leading and trailing whitespace removed.
Trimmed(s) == TrimEnd(TrimStart(s))

\* str::contains(c)
Contains(s, c) == \E i \in 1..Len(s) : s[i] = c

\* `set.contains(" ")`, utilities.rs:128
ContainsSpace(set) == Contains(set, " ")

\* ------------------------------------------------------------ configuration
DefaultPrefix == <<"-">>
DefaultMuteType == "timeout"
DefaultMuteRole == 0

NoEntry == [absent |-> TRUE]
NoRow == [absent |-> TRUE]

\* GuildSettings value built by guild_create (event_handler.rs:102-107).
\* Variant: the owner taken from the guild id.
DataToSetMutant(guild_id, owner_id) ==
    [prefix |-> DefaultPrefix, owner_id |-> ToU64(guild_id),
     mute_type |-> DefaultMuteType, mute_role |-> DefaultMuteRole]
\* As written.
DataToSet(guild_id, owner_id) ==
    [prefix |-> DefaultPrefix, owner_id |-> ToU64(owner_id),
     mute_type |-> DefaultMuteType, mute_role |-> DefaultMuteRole]

\* GuildSettings value built by the prefix command (utilities.rs:153-158).
Setting(set, author) ==
    [prefix |-> set, owner_id |-> author,
     mute_type |-> DefaultMuteType, mute_role |-> DefaultMuteRole]

\* HashMap::insert: the value replaces whatever the key held.
MapInsert(map, key, value) == [map EXCEPT ![key] = value]

\* `lock.entry(key).or_insert(setting)` followed by `.prefix = set`.
\* Variant: `lock.insert(key, setting)`, the entry is replaced as a whole.
EntryInsertSetting(map, key, setting, set) ==
    [map EXCEPT ![key] = [setting EXCEPT !.prefix = set]]
\* Variant: or_insert alone, an existing entry keeps its prefix.
EntryOrInsertSetPrefixMutant(map, key, setting, set) ==
    IF map[key] = NoEntry THEN [map EXCEPT ![key] = setting] ELSE map
\* As written.
EntryOrInsertSetPrefix(map, key, setting, set) ==
    IF map[key] = NoEntry
    THEN [map EXCEPT ![key] = [setting EXCEPT !.prefix = set]]
    ELSE [map EXCEPT ![key] = [@ EXCEPT !.prefix = set]]

\* INSERT INTO guild_settings (guild_id, prefix, owner_id) ... ON CONFLICT DO NOTHING
\* guild_id is the primary key; the result is the table and whether the
\* statement ended in an error.
\* Variant: the statement is sent but has not been applied when the call returns.
InsertNotAwaited(table, guild_id, prefix, owner_id) == [table |-> table, err |-> FALSE]
\* Variant: the conflicting row is replaced.
InsertOnConflictReplace(table, guild_id, prefix, owner_id) ==
    [table |-> [table EXCEPT ![guild_id] = [prefix |-> prefix, owner_id |-> owner_id]],
     err |-> FALSE]
\* As written.
InsertOnConflictDoNothing(table, guild_id, prefix, owner_id) ==
    IF table[guild_id] # NoRow
    THEN [table |-> table, err |-> FALSE]
    ELSE [table |-> [table EXCEPT ![guild_id] = [prefix |-> prefix, owner_id |-> owner_id]],
          err |-> FALSE]

\* DELETE FROM guild_settings WHERE guild_id = ?
DeleteRow(table, guild_id) == [table EXCEPT ![guild_id] = NoRow]

\* UPDATE guild_settings SET prefix = ? WHERE guild_id = ?
UpdatePrefix(table, guild_id, new_prefix) ==
    IF table[guild_id] = NoRow
    THEN table
    ELSE [table EXCEPT ![guild_id] = [@ EXCEPT !.prefix = new_prefix]]

\* ---------------------------------------------------------------- responses
RespPrivate == <<"The bot's default prefix is ", <<"-">>>>
RespDenied == <<"You must be an administrator to use this command.">>
RespNoSpaces == <<"Prefixes cannot contain spaces.">>
RespCurrent(guild_prefix) == <<"The bot's default prefix is ", guild_prefix>>
RespSet(new_prefix) == <<"Prefix set to ", new_prefix>>

\* format!("Monitoring a total of {guild_count} guilds | -help")
Presence(guild_count) == <<"Monitoring a total of ", guild_count, " guilds | -help">>

\* The branch the prefix command takes (utilities.rs:73, 85-92, 107, 128).
\* `found` is whether the invoker's permissions can be looked up:
\* `.member(..).await.unwrap()` and `.permissions(..).expect(..)` (lines 86-88)
\* panic the command when they cannot; `is_admin` is what the lookup gives.
\* Variant: without the administrator test.
RouteMutant(private, found, is_admin, prefix) ==
    IF private THEN "private"
    ELSE IF ~found THEN "lookup"
    ELSE IF prefix = <<>> THEN "show"
    ELSE IF ContainsSpace(prefix) THEN "rejected"
    ELSE "set"
\* As written.
Route(private, found, is_admin, prefix) ==
    IF private THEN "private"
    ELSE IF ~found THEN "lookup"
    ELSE IF ~is_admin THEN "denied"
    ELSE IF prefix = <<>> THEN "show"
    ELSE IF ContainsSpace(prefix) THEN "rejected"
    ELSE "set"

\* -------------------------------------------------------------------- locks
\* Guards on the settings map's RwLock.
SettingsLocks == {"guild_settings.read", "guild_settings.write"}

\* Guards guild_create holds while its INSERT is awaited: the read guard on
\* ctx.data taken at event_handler.rs:79; the map's write guard is only taken
\* at line 110.
LocksAtInsert == {"data.read"}

\* Guards guild_delete holds while its DELETE is awaited: the read guard on
\* ctx.data taken at event_handler.rs:122; the handler takes no guard on the map.
LocksAtDelete == {"data.read"}

\* Guards prefix holds while its UPDATE is awaited: the read guard on ctx.data
\* taken at utilities.rs:167; the map's write guard `lock` lives in the block
\* that ends at line 164.
\* Variant: `lock` declared outside the block, alive until the function returns.
LocksAtUpdateMutant == {"data.read", "guild_settings.write"}
\* As written.
LocksAtUpdate == {"data.read"}

\* `.execute(&database).await.unwrap()`: the task goes on only when the
\* statement executed without an error, and panics otherwise.
Unwrap(ok, err) == ok /\ ~err

\* -------------------------------------------------------------------- state
VARIABLES
    cache,            \* GuildSettingsContainer: guild id (u64) -> GuildSettings
    store,            \* table guild_settings: guild_id (i64) -> row
    is_loop_running,  \* Handler::is_loop_running
    loops,            \* the tasks spawned by cache_ready, in spawn order
    presence,         \* the activity last handed to the gateway
    tasks,            \* bag of the handler tasks suspended between two steps
    last              \* how the handler that finished last ended

vars == <<cache, store, is_loop_running, loops, presence, tasks, last>>

NoPresence == <<>>
\* `msg.guild_id` of a direct message: None, the zero niche of the non-zero id.
NoGuild == 0

InFlight == BagCardinality(tasks)
Quiescent == tasks = EmptyBag

\* A handler task can be dispatched: the thread pool runs at most MaxTasks
\* suspended tasks in the model; handled one at a time, an event waits for the
\* handler before it to return.
CanDispatch(seq) == IF seq THEN Quiescent ELSE InFlight < MaxTasks

Suspend(r) == tasks' = tasks (+) SetToBag({r})
Resume(r) == tasks' = tasks (-) SetToBag({r})

\* `guild_settings.read().await` / `.write().await` return at once: a reader
\* waits for a writer, a writer for every other guard.
MapReadable == \A r \in BagToSet(tasks) : "guild_settings.write" \notin r.holds
MapWritable == \A r \in BagToSet(tasks) : r.holds \cap SettingsLocks = {}

Tracked(id) == cache[id] # NoEntry /\ store[ToI64(id)] # NoRow
Untracked(id) == cache[id] = NoEntry /\ store[ToI64(id)] = NoRow

Init ==
    /\ cache = [w \in Workspaces |-> NoEntry]
    /\ store = [k \in StoreKeys |-> NoRow]
    /\ is_loop_running = FALSE
    /\ loops = <<>>
    /\ presence = NoPresence
    /\ tasks = EmptyBag
    /\ last = [kind |-> "none"]

\* ------------------------------------------------------------- guild_create
\* The handler up to and including the INSERT (event_handler.rs:72-97).  `ok`
\* is whether the statement executes; `.unwrap()` panics the task otherwise.
GuildCreateInsert(id, owner, ok, seq) ==
    /\ CanDispatch(seq)
    /\ LET guild_id == ToI64(id)
           owner_id == ToI64(owner)
           done == InsertOnConflictDoNothing(store, guild_id, DefaultPrefix, owner_id)
       IN  IF Unwrap(ok, done.err)
           THEN /\ store' = IF ok THEN done.table ELSE store
                /\ Suspend([kind |-> "guild_create", guild_id |-> guild_id,
                            owner_id |-> owner_id, guild |-> id, owner |-> owner,
                            fresh |-> Untracked(id), executed |-> ok /\ ~done.err,
                            holds |-> LocksAtInsert])
                /\ UNCHANGED last
           ELSE /\ last' = [kind |-> "guild_create", guild |-> id, result |-> "panic",
                            at |-> "insert"]
                /\ UNCHANGED <<store, tasks>>
    /\ UNCHANGED <<cache, is_loop_running, loops, presence>>

\* The rest of the handler: the map insert under the write lock
\* (event_handler.rs:99-114).
GuildCreateCache(r) ==
    /\ BagIn(r, tasks)
    /\ r.kind = "guild_create"
    /\ MapWritable
    /\ cache' = MapInsert(cache, ToU64(r.guild_id), DataToSet(r.guild_id, r.owner_id))
    /\ Resume(r)
    /\ last' = [kind |-> "guild_create", guild |-> r.guild, owner |-> r.owner,
                fresh |-> r.fresh, executed |-> r.executed, result |-> "ok"]
    /\ UNCHANGED <<store, is_loop_running, loops, presence>>

\* ------------------------------------------------------------- guild_delete
\* The handler up to and including the DELETE (event_handler.rs:117-128):
\* `g.unwrap()` panics when the gateway sends no cached guild, then the DELETE,
\* unwrapped as well.  The statement takes effect while the task is suspended
\* in `.execute(&database).await`.
GuildDelete(id, g, ok, seq) ==
    /\ CanDispatch(seq)
    /\ IF g /\ Unwrap(ok, FALSE)
       THEN /\ store' = IF ok THEN DeleteRow(store, ToI64(id)) ELSE store
            /\ Suspend([kind |-> "guild_delete", guild |-> id, tracked |-> Tracked(id),
                        executed |-> ok, holds |-> LocksAtDelete])
            /\ UNCHANGED last
       ELSE /\ last' = [kind |-> "guild_delete", guild |-> id, result |-> "panic",
                        at |-> IF g THEN "delete" ELSE "guild"]
            /\ UNCHANGED <<store, tasks>>
    /\ UNCHANGED <<cache, is_loop_running, loops, presence>>

\* The task is polled again: the read guard on ctx.data is dropped and the
\* handler returns (event_handler.rs:128-130).  The map is not touched.
GuildDeleteReturn(r) ==
    /\ BagIn(r, tasks)
    /\ r.kind = "guild_delete"
    /\ Resume(r)
    /\ last' = [kind |-> "guild_delete", guild |-> r.guild, tracked |-> r.tracked,
                executed |-> r.executed, result |-> "ok"]
    /\ UNCHANGED <<cache, store, is_loop_running, loops, presence>>

\* ------------------------------------------------------------------- prefix
\* `msg.is_private()`: the message carries no guild id.
IsPrivate(guild) == guild = NoGuild

\* `msg.channel_id.send_message(..).await`: the reply as the channel shows it
\* when the send succeeds; `failed` is how the handler ends when it does not,
\* "err" where the call is followed by `?`, "panic" where it is unwrapped.
SendMessage(sent, resp, failed) ==
    IF sent THEN [result |-> "ok", resp |-> resp]
            ELSE [result |-> failed, resp |-> <<>>]

\* Outcome of a prefix command that ended without reaching the map write.
PrefixEnded(route, guild, is_admin, prefix, result, resp) ==
    [kind |-> "prefix", route |-> route, guild |-> guild, is_admin |-> is_admin,
     prefix |-> prefix, result |-> result, resp |-> resp]

\* Direct message (utilities.rs:73-83): a static reply.  The handler touches
\* neither map nor table, so its start and its reply are taken as one step.
PrefixPrivate(guild, found, is_admin, raw, sent, seq) ==
    /\ CanDispatch(seq)
    /\ Route(IsPrivate(guild), found, is_admin, Trimmed(raw)) = "private"
    /\ LET out == SendMessage(sent, RespPrivate, "err")
       IN  last' = PrefixEnded("private", guild, is_admin, Trimmed(raw), out.result, out.resp)
    /\ UNCHANGED <<cache, store, is_loop_running, loops, presence, tasks>>

\* The lookup of the invoker's permissions fails (utilities.rs:85-90): the
\* command panics before the administrator test, with no reply and nothing
\* read or written.
PrefixLookupFailed(guild, found, is_admin, raw, seq) ==
    /\ CanDispatch(seq)
    /\ Route(IsPrivate(guild), found, is_admin, Trimmed(raw)) = "lookup"
    /\ last' = PrefixEnded("lookup", guild, is_admin, Trimmed(raw), "panic", <<>>)
    /\ UNCHANGED <<cache, store, is_loop_running, loops, presence, tasks>>

\* The lookup succeeds and the invoker is no administrator (utilities.rs:85-102);
\* one step as well.
PrefixDenied(guild, found, is_admin, raw, sent, seq) ==
    /\ CanDispatch(seq)
    /\ Route(IsPrivate(guild), found, is_admin, Trimmed(raw)) = "denied"
    /\ LET out == SendMessage(sent, RespDenied, "err")
       IN  last' = PrefixEnded("denied", guild, is_admin, Trimmed(raw), out.result, out.resp)
    /\ UNCHANGED <<cache, store, is_loop_running, loops, presence, tasks>>

\* No argument (utilities.rs:107-113): the prefix is read from the map under
\* the read lock, both guards are dropped at the end of the block, and the
\* task goes on to send what it read; `.unwrap()` panics when the guild has no
\* entry.
PrefixShow(guild, found, is_admin, raw, seq) ==
    /\ CanDispatch(seq)
    /\ Route(IsPrivate(guild), found, is_admin, Trimmed(raw)) = "show"
    /\ MapReadable
    /\ IF cache[guild] = NoEntry
       THEN /\ last' = PrefixEnded("show", guild, is_admin, Trimmed(raw), "panic", <<>>)
            /\ UNCHANGED tasks
       ELSE /\ Suspend([kind |-> "prefix", route |-> "show", pc |-> "reply",
                        guild |-> guild, is_admin |-> is_admin, prefix |-> Trimmed(raw),
                        guild_prefix |-> cache[guild].prefix, holds |-> {}])
            /\ UNCHANGED last
    /\ UNCHANGED <<cache, store, is_loop_running, loops, presence>>

\* The reply of the show branch (utilities.rs:115-123) carries the prefix read
\* before the suspension; a failed send returns the error with `?`.
PrefixShowReply(r, sent) ==
    /\ BagIn(r, tasks)
    /\ r.kind = "prefix" /\ r.route = "show" /\ r.pc = "reply"
    /\ Resume(r)
    /\ LET out == SendMessage(sent, RespCurrent(r.guild_prefix), "err")
       IN  last' = PrefixEnded("show", r.guild, r.is_admin, r.prefix, out.result, out.resp)
    /\ UNCHANGED <<cache, store, is_loop_running, loops, presence>>

\* The argument contains a space (utilities.rs:126-139); the send is
\* unwrapped.  One step, as nothing is read or written.
PrefixRejected(guild, found, is_admin, raw, sent, seq) ==
    /\ CanDispatch(seq)
    /\ Route(IsPrivate(guild), found, is_admin, Trimmed(raw)) = "rejected"
    /\ LET out == SendMessage(sent, RespNoSpaces, "panic")
       IN  last' = PrefixEnded("rejected", guild, is_admin, Trimmed(raw), out.result, out.resp)
    /\ UNCHANGED <<cache, store, is_loop_running, loops, presence, tasks>>

\* The map write under the write lock (utilities.rs:141-164); the task then
\* awaits the UPDATE.
PrefixSet(guild, author, found, is_admin, raw, seq) ==
    /\ CanDispatch(seq)
    /\ Route(IsPrivate(guild), found, is_admin, Trimmed(raw)) = "set"
    /\ MapWritable
    /\ LET set == Trimmed(raw)
           next == EntryOrInsertSetPrefix(cache, guild, Setting(set, author), set)
       IN  /\ cache' = next
           /\ Suspend([kind |-> "prefix", route |-> "set", pc |-> "update",
                       guild |-> guild, is_admin |-> is_admin,
                       prefix |-> set, new_prefix |-> next[guild].prefix,
                       tracked |-> Tracked(guild), fresh |-> Untracked(guild),
                       holds |-> LocksAtUpdate])
    /\ UNCHANGED <<store, is_loop_running, loops, presence, last>>

\* Outcome of a prefix command that wrote the map.
PrefixSetEnded(r, result, resp) ==
    [kind |-> "prefix", route |-> "set", guild |-> r.guild, is_admin |-> r.is_admin,
     prefix |-> r.prefix, tracked |-> r.tracked, fresh |-> r.fresh,
     result |-> result, resp |-> resp]

\* The UPDATE (utilities.rs:166-176): `.unwrap()` panics the task before any
\* reply when the statement fails; otherwise the read guard on ctx.data is
\* dropped and the task goes on to send the confirmation.
PrefixStoreUpdate(r, ok) ==
    /\ BagIn(r, tasks)
    /\ r.kind = "prefix" /\ r.route = "set" /\ r.pc = "update"
    /\ IF Unwrap(ok, FALSE)
       THEN /\ store' = IF ok THEN UpdatePrefix(store, ToI64(r.guild), r.new_prefix)
                               ELSE store
            /\ tasks' = (tasks (-) SetToBag({r}))
                            (+) SetToBag({[r EXCEPT !.pc = "reply", !.holds = {}]})
            /\ UNCHANGED last
       ELSE /\ last' = PrefixSetEnded(r, "panic", <<>>)
            /\ Resume(r)
            /\ UNCHANGED store
    /\ UNCHANGED <<cache, is_loop_running, loops, presence>>

\* The confirmation (utilities.rs:178-185); a failed send returns the error
\* with `?`, the prefix staying set.
PrefixSetReply(r, sent) ==
    /\ BagIn(r, tasks)
    /\ r.kind = "prefix" /\ r.route = "set" /\ r.pc = "reply"
    /\ Resume(r)
    /\ LET out == SendMessage(sent, RespSet(r.new_prefix), "err")
       IN  last' = PrefixSetEnded(r, out.result, out.resp)
    /\ UNCHANGED <<cache, store, is_loop_running, loops, presence>>

\* -------------------------------------------------------------- cache_ready
\* `self.is_loop_running.load(Ordering::Relaxed)` (event_handler.rs:172).
CacheReadyLoad(guild_count, seq) ==
    /\ CanDispatch(seq)
    /\ IF is_loop_running
       THEN UNCHANGED tasks
       ELSE Suspend([kind |-> "cache_ready", pc |-> "spawn", guild_count |-> guild_count,
                     holds |-> {}])
    /\ UNCHANGED <<cache, store, is_loop_running, loops, presence, last>>

\* `tokio::spawn(async move { loop { ... } })` (event_handler.rs:175-181): the
\* new task owns `guilds`, so it carries guilds.len() as it was at the signal.
CacheReadySpawn(r) ==
    /\ BagIn(r, tasks)
    /\ r.kind = "cache_ready"
    /\ r.pc = "spawn"
    /\ loops' = Append(loops, [guild_count |-> r.guild_count, pc |-> "tick"])
    /\ tasks' = (tasks (-) SetToBag({r})) (+) SetToBag({[r EXCEPT !.pc = "swap"]})
    /\ UNCHANGED <<cache, store, is_loop_running, presence, last>>

\* `self.is_loop_running.swap(true, Ordering::Relaxed)` (event_handler.rs:184).
CacheReadySwap(r) ==
    /\ BagIn(r, tasks)
    /\ r.kind = "cache_ready"
    /\ r.pc = "swap"
    /\ is_loop_running' = TRUE
    /\ Resume(r)
    /\ UNCHANGED <<cache, store, loops, presence, last>>

\* ------------------------------------------------------------ presence loop
\* Where the loop goes after `set_activity` (event_handler.rs:177-180): the
\* call returns nothing, so the loop body goes on to the sleep whether or not
\* the gateway took the update.
\* Variant: the call's failure is propagated out of the loop.
AfterPublishMutant(delivered) == IF delivered THEN "sleep" ELSE "stopped"
\* As written.
AfterPublish(delivered) == "sleep"

\* `set_activity(&ctx2, guilds.len())` (event_handler.rs:178, 193-197).
\* `delivered` is whether the update reaches the gateway.
PresenceTick(i, delivered) ==
    /\ i \in 1..Len(loops)
    /\ loops[i].pc = "tick"
    /\ presence' = IF delivered THEN Presence(loops[i].guild_count) ELSE presence
    /\ loops' = [loops EXCEPT ![i].pc = AfterPublish(delivered)]
    /\ UNCHANGED <<cache, store, is_loop_running, tasks, last>>

\* `tokio::time::sleep(Duration::from_secs(3)).await` returns (event_handler.rs:179).
PresenceWake(i) ==
    /\ i \in 1..Len(loops)
    /\ loops[i].pc = "sleep"
    /\ loops' = [loops EXCEPT ![i].pc = "tick"]
    /\ UNCHANGED <<cache, store, is_loop_running, presence, tasks, last>>

\* ----------------------------------------------------------- specifications
Records == BagToSet(tasks)

\* Number of guilds that have an entry in the settings map.
CacheSize == Cardinality({w \in Workspaces : cache[w] # NoEntry})

\* The guild the concurrent handlers contend for.
Contended == {2^IdBits - 2}

\* Arguments of the commands that contend: none, a prefix other than the
\* default, a value with a space.
ContendedArgs == {<<>>, <<"!">>, <<"!", " ", "!">>}

\* Where a command can come from: a guild channel or a direct message.
Origins(guilds) == guilds \cup {NoGuild}

\* Spec: the configuration handlers as the thread pool runs them.  Tasks
\* interleave at their suspension points, a statement, a permission lookup or
\* a send may fail, and the
\* handlers contend for one guild (entries of different guilds share nothing
\* but the map).
Next ==
    \/ \E id \in Contended, owner \in Users, ok \in BOOLEAN :
          GuildCreateInsert(id, owner, ok, FALSE)
    \/ \E r \in Records : GuildCreateCache(r)
    \/ \E id \in Contended, g \in BOOLEAN, ok \in BOOLEAN : GuildDelete(id, g, ok, FALSE)
    \/ \E r \in Records : GuildDeleteReturn(r)
    \/ \E o \in Origins(Contended), is_admin \in BOOLEAN, raw \in ContendedArgs :
          \E found \in BOOLEAN, sent \in BOOLEAN : PrefixPrivate(o, found, is_admin, raw, sent, FALSE)
    \/ \E o \in Origins(Contended), is_admin \in BOOLEAN, raw \in ContendedArgs :
          \E found \in BOOLEAN : PrefixLookupFailed(o, found, is_admin, raw, FALSE)
    \/ \E o \in Origins(Contended), is_admin \in BOOLEAN, raw \in ContendedArgs :
          \E found \in BOOLEAN, sent \in BOOLEAN : PrefixDenied(o, found, is_admin, raw, sent, FALSE)
    \/ \E o \in Origins(Contended), is_admin \in BOOLEAN, raw \in ContendedArgs :
          \E found \in BOOLEAN : PrefixShow(o, found, is_admin, raw, FALSE)
    \/ \E r \in Records, sent \in BOOLEAN : PrefixShowReply(r, sent)
    \/ \E o \in Origins(Contended), is_admin \in BOOLEAN, raw \in ContendedArgs :
          \E found \in BOOLEAN, sent \in BOOLEAN : PrefixRejected(o, found, is_admin, raw, sent, FALSE)
    \/ \E o \in Origins(Contended), author \in Users, is_admin \in BOOLEAN, raw \in ContendedArgs :
          \E found \in BOOLEAN : PrefixSet(o, author, found, is_admin, raw, FALSE)
    \/ \E r \in Records, ok \in BOOLEAN : PrefixStoreUpdate(r, ok)
    \/ \E r \in Records, sent \in BOOLEAN : PrefixSetReply(r, sent)

Spec == Init /\ [][Next]_vars

\* SpecSeq: the same handlers, one event at a time, every guild and user, and
\* statements, permission lookups and sends that succeed.
NextSeq ==
    \/ \E id \in Workspaces, owner \in Users : GuildCreateInsert(id, owner, TRUE, TRUE)
    \/ \E r \in Records : GuildCreateCache(r)
    \/ \E id \in Workspaces, g \in BOOLEAN : GuildDelete(id, g, TRUE, TRUE)
    \/ \E r \in Records : GuildDeleteReturn(r)
    \/ \E o \in Origins(Workspaces), is_admin \in BOOLEAN, raw \in RawArgs :
          PrefixPrivate(o, TRUE, is_admin, raw, TRUE, TRUE)
    \/ \E o \in Origins(Workspaces), is_admin \in BOOLEAN, raw \in RawArgs :
          PrefixDenied(o, TRUE, is_admin, raw, TRUE, TRUE)
    \/ \E o \in Origins(Workspaces), is_admin \in BOOLEAN, raw \in RawArgs :
          PrefixShow(o, TRUE, is_admin, raw, TRUE)
    \/ \E r \in Records : PrefixShowReply(r, TRUE)
    \/ \E o \in Origins(Workspaces), is_admin \in BOOLEAN, raw \in RawArgs :
          PrefixRejected(o, TRUE, is_admin, raw, TRUE, TRUE)
    \/ \E o \in Origins(Workspaces), author \in Users, is_admin \in BOOLEAN, raw \in RawArgs :
          PrefixSet(o, author, TRUE, is_admin, raw, TRUE)
    \/ \E r \in Records : PrefixStoreUpdate(r, TRUE)
    \/ \E r \in Records : PrefixSetReply(r, TRUE)

SpecSeq == Init /\ [][NextSeq]_vars

\* SpecPresence: the cache_ready handlers on the thread pool, the loops they
\* spawn, and the guilds joining and leaving meanwhile.  Each signal lists the
\* guilds the settings map holds when it fires.
NextPresence ==
    \/ \E n \in {CacheSize} : CacheReadyLoad(n, FALSE)
    \/ \E r \in Records : CacheReadySpawn(r)
    \/ \E r \in Records : CacheReadySwap(r)
    \/ \E i \in 1..Len(loops) : PresenceTick(i, TRUE)
    \/ \E i \in 1..Len(loops) : PresenceWake(i)
    \/ \E id \in Workspaces, owner \in {2^IdBits - 1} :
          GuildCreateInsert(id, owner, TRUE, FALSE)
    \/ \E r \in Records : GuildCreateCache(r)
    \/ \E id \in Workspaces : GuildDelete(id, TRUE, TRUE, FALSE)
    \/ \E r \in Records : GuildDeleteReturn(r)

SpecPresence == Init /\ [][NextPresence]_vars

\* The presence loops with updates that may not reach the gateway, under the
\* runtime's scheduling: a loop that can run its next step eventually runs it
\* (a spawned task is polled when ready, a 3 s sleep ends).
NextLoop ==
    \/ \E n \in {CacheSize} : CacheReadyLoad(n, FALSE)
    \/ \E r \in Records : CacheReadySpawn(r)
    \/ \E r \in Records : CacheReadySwap(r)
    \/ \E i \in 1..Len(loops), delivered \in BOOLEAN : PresenceTick(i, delivered)
    \/ \E i \in 1..Len(loops) : PresenceWake(i)
    \/ \E id \in Contended, owner \in {2^IdBits - 1} : GuildCreateInsert(id, owner, TRUE, FALSE)
    \/ \E r \in Records : GuildCreateCache(r)

LoopFairness ==
    \A i \in 1..MaxTasks :
        /\ WF_vars(\E delivered \in BOOLEAN : PresenceTick(i, delivered))
        /\ WF_vars(PresenceWake(i))

SpecLoop == Init /\ [][NextLoop]_vars /\ LoopFairness

\* ------------------------------------------------------------------ claims
Row(id) == store[ToI64(id)]

\* The string holds a whitespace character of any kind.
HasWhitespace(s) == \E i \in 1..Len(s) : s[i] \in Whitespace

\* The handler that finished last was a guild_create that ran to its end.
JoinDone == last.kind = "guild_create" /\ last.result = "ok"

\* The handler that finished last was a prefix command that wrote the map and
\* whose UPDATE executed.
SetDone == last.kind = "prefix" /\ last.route = "set" /\ last.result = "ok"

\* C1 (SpecSeq): once a guild_create for a guild that had neither a map entry
\* nor a row has run to its end, the map entry of the guild has prefix "-" and
\* the owner id of the event, and the row of the guild exists with prefix "-"
\* and an owner_id column that reads back as the same id.
C1_JoinTracksWithDefaults ==
    (Quiescent /\ JoinDone /\ last.fresh) =>
        /\ cache[last.guild] # NoEntry
        /\ cache[last.guild].prefix = <<"-">>
        /\ cache[last.guild].owner_id = last.owner
        /\ Row(last.guild) # NoRow
        /\ Row(last.guild).prefix = <<"-">>
        /\ ToU64(Row(last.guild).owner_id) = last.owner

C1_Witness ==
    /\ Quiescent
    /\ JoinDone
    /\ last.fresh
    /\ last.owner = 2^IdBits - 1
    /\ Row(last.guild) # NoRow

\* C2 (SpecSeq), as claimed: once a guild_delete for a guild that had a map
\* entry and a row has run to its end, the guild has no map entry and no row.
C2_LeaveRemovesBoth ==
    (Quiescent /\ last.kind = "guild_delete" /\ last.result = "ok" /\ last.tracked) =>
        /\ cache[last.guild] = NoEntry
        /\ Row(last.guild) = NoRow

\* C3 (SpecSeq), as claimed: whenever no handler is in flight, every guild
\* with a map entry has a row, and the row has the prefix of the entry.
C3_CacheAgreesWithStore ==
    Quiescent =>
        \A w \in Workspaces :
            cache[w] # NoEntry => (Row(w) # NoRow /\ Row(w).prefix = cache[w].prefix)

\* A step of a guild_create for guild id: its INSERT (the task is then
\* suspended before the map write), its panic, or its map write.
JoinInsertStep(id) ==
    \E r \in BagToSet(tasks') :
        /\ r.kind = "guild_create"
        /\ r.guild = id
        /\ CopiesIn(r, tasks') = CopiesIn(r, tasks) + 1
JoinPanicStep(id) ==
    /\ last' # last
    /\ last'.kind = "guild_create"
    /\ last'.guild = id
    /\ last'.result = "panic"
JoinCacheStep(id) ==
    \E r \in BagToSet(tasks) :
        /\ r.kind = "guild_create"
        /\ r.guild = id
        /\ CopiesIn(r, tasks') = CopiesIn(r, tasks) - 1

\* C4 (SpecSeq): a guild_create for a guild whose row holds a customised
\* prefix leaves that row as it is and does not end in an error.
C4_DuplicateJoinKeepsPrefix ==
    [][\A id \in Workspaces :
          (Row(id) # NoRow /\ Row(id).prefix # <<"-">>) =>
              /\ ~JoinPanicStep(id)
              /\ (JoinInsertStep(id) \/ JoinCacheStep(id)) => store'[ToI64(id)] = Row(id)]_vars

C4_Witness ==
    /\ Quiescent
    /\ JoinDone
    /\ ~last.fresh
    /\ Row(last.guild) # NoRow
    /\ Row(last.guild).prefix = <<"!">>

\* C5 (SpecPresence), as claimed: at most one presence loop is ever started.
C5_AtMostOneLoop == Len(loops) <= 1

\* C6 (SpecSeq), as claimed: a prefix command of an administrator in a guild
\* whose candidate contains a whitespace character never gets to the map
\* write, changes neither the map nor the table, and answers with the
\* rejection.
C6_WhitespaceRejected ==
    [][/\ \A r \in BagToSet(tasks') :
              (r.kind = "prefix" /\ r.is_admin) => ~HasWhitespace(r.prefix)
       /\ (/\ last' # last
           /\ last'.kind = "prefix"
           /\ last'.guild # NoGuild
           /\ last'.is_admin
           /\ HasWhitespace(last'.prefix)) =>
              (cache' = cache /\ store' = store /\ last'.resp = RespNoSpaces)]_vars

\* C7 (Spec): a prefix command in a guild by an invoker who is no
\* administrator never gets to the map read or write and changes neither the
\* map nor the table, whatever its argument; the only reply it sends is the
\* denial, which it sends whenever it runs to its end.  It ends without a
\* reply when the lookup of the invoker's permissions panics or the denial
\* cannot be sent.
C7_NonAdminChangesNothing ==
    [][/\ \A r \in BagToSet(tasks') : r.kind = "prefix" => r.is_admin
       /\ (/\ last' # last
           /\ last'.kind = "prefix"
           /\ last'.guild # NoGuild
           /\ ~last'.is_admin) =>
              /\ cache' = cache /\ store' = store /\ tasks' = tasks
              /\ last'.route \in {"lookup", "denied"}
              /\ (last'.result = "panic") <=> (last'.route = "lookup")
              /\ last'.resp = IF last'.result = "ok" THEN RespDenied ELSE <<>>]_vars

C7_Witness ==
    /\ last.kind = "prefix"
    /\ last.guild # NoGuild
    /\ ~last.is_admin
    /\ last.prefix = <<"!">>
    /\ last.resp = RespDenied
    /\ cache[last.guild] # NoEntry

\* C8 (SpecSeq): once an administrator's prefix command with a non-empty
\* whitespace-free value v, in a guild that had a map entry and a row, has run
\* to its end, the map entry and the row both hold prefix v and the reply
\* confirms v.
C8_SetPrefixReachesBoth ==
    (Quiescent /\ SetDone /\ last.is_admin /\ last.tracked
       /\ last.prefix # <<>> /\ ~HasWhitespace(last.prefix)) =>
        /\ cache[last.guild] # NoEntry
        /\ cache[last.guild].prefix = last.prefix
        /\ Row(last.guild) # NoRow
        /\ Row(last.guild).prefix = last.prefix
        /\ last.resp = <<"Prefix set to ", last.prefix>>

C8_Witness ==
    /\ Quiescent
    /\ SetDone
    /\ last.is_admin
    /\ last.tracked
    /\ last.prefix = <<"!">>
    /\ Row(last.guild).prefix = <<"!">>

\* C9 (SpecSeq), as claimed: no prefix held in a map entry or in a row
\* contains a whitespace character.
C9_NoWhitespaceInPrefix ==
    \A w \in Workspaces :
        /\ cache[w] # NoEntry => ~HasWhitespace(cache[w].prefix)
        /\ Row(w) # NoRow => ~HasWhitespace(Row(w).prefix)

\* C10 (SpecPresence), as claimed: the status a tick of a presence loop
\* publishes carries the number of entries the settings map has at that tick.
C10_StatusFollowsCache ==
    [][\A i \in 1..Len(loops) :
          (/\ Len(loops') = Len(loops)
           /\ loops[i].pc = "tick"
           /\ loops'[i].pc = "sleep") =>
              presence' = <<"Monitoring a total of ", CacheSize, " guilds | -help">>]_vars


\* C11 (SpecSeq), as claimed: the map write of a guild_create for a guild that
\* already has a map entry is a set-if-absent, so the entry stays as it was
\* and is not replaced by the defaults.
C11_JoinKeepsCachedConfig ==
    [][\A id \in Workspaces :
          (cache[id] # NoEntry /\ JoinCacheStep(id)) => cache'[id] = cache[id]]_vars


\* A handler suspended on its store statement.
AwaitingStore(r) ==
    r.kind \in {"guild_create", "guild_delete"} \/ (r.kind = "prefix" /\ r.pc = "update")

\* C12 (Spec): no handler holds a guard on the settings map's lock while its
\* store statement is in flight; what it holds then is at most the read guard
\* on ctx.data, so the map stays readable and writable for the other handlers.
C12_NoMapLockAcrossStore ==
    \A r \in Records : AwaitingStore(r) => r.holds \cap SettingsLocks = {}

\* A guild_create and a prefix command both wait for their store statements.
C12_Witness ==
    /\ \E r \in Records : r.kind = "guild_create"
    /\ \E r \in Records : r.kind = "prefix" /\ r.pc = "update"


\* C13 (SpecSeq): in guild_create the store write comes first. The step that
\* runs the INSERT leaves the guild's row in the store and does not touch the
\* map; the step that writes the map entry finds the row already there and
\* leaves the store alone; and while the handler is between the two the row
\* is there.
C13_StoreBeforeCache ==
    [][/\ \A id \in Workspaces :
            /\ JoinInsertStep(id) => (store'[ToI64(id)] # NoRow /\ cache' = cache)
            /\ JoinCacheStep(id) => (store[ToI64(id)] # NoRow /\ store' = store)
       /\ \A r \in BagToSet(tasks') :
            r.kind = "guild_create" => store'[ToI64(r.guild)] # NoRow]_vars

\* Between the two steps of the first join of a guild: the row is there, the
\* map entry is not yet.
C13_Witness ==
    \E r \in Records :
        r.kind = "guild_create" /\ r.fresh /\ cache[r.guild] = NoEntry /\ Row(r.guild) # NoRow


\* C14 (Spec), as claimed: when the INSERT of guild_create or the DELETE of
\* guild_delete fails, the handler does not go on to the map with the
\* statement unexecuted, leaves map and store as they were, and ends by reporting
\* the failure rather than by the abort of its task.
C14_FailedWriteReported ==
    [][/\ \A r \in BagToSet(tasks') : r.kind = "guild_create" => r.executed
       /\ (/\ last' # last
           /\ last'.kind \in {"guild_create", "guild_delete"}
           /\ last'.result # "ok"
           /\ last'.at \in {"insert", "delete"}) =>
              (cache' = cache /\ store' = store /\ last'.result # "panic")]_vars


\* C15 (Spec), as claimed: a prefix command that changed the prefix in the
\* map and whose UPDATE failed ends with a reply.
C15_SetAlwaysReplies ==
    (last.kind = "prefix" /\ last.route = "set" /\ last.result = "panic") =>
        last.resp # <<>>


\* A prefix command with no argument reads the map and goes on to its reply.
ShowReadStep(r) ==
    r.kind = "prefix" /\ r.route = "show" /\ CopiesIn(r, tasks') = CopiesIn(r, tasks) + 1

\* A prefix command with no argument ends for the guild.
ShowStep(guild) ==
    /\ last' # last
    /\ last'.kind = "prefix" /\ last'.route = "show" /\ last'.guild = guild

\* C16 (SpecSeq), as claimed: a prefix command with no argument from an
\* administrator changes neither map nor store and answers with the guild's
\* current prefix; for a guild without a map entry it still answers, with the
\* prefix of the guild's row when there is one.
C16_ShowAlwaysAnswers ==
    [][/\ \A r \in BagToSet(tasks') :
            ShowReadStep(r) => (cache' = cache /\ store' = store)
       /\ \A guild \in Workspaces :
          ShowStep(guild) =>
              /\ cache' = cache /\ store' = store
              /\ last'.result = "ok" /\ last'.resp # <<>>
              /\ cache[guild] # NoEntry => last'.resp = RespCurrent(cache[guild].prefix)
              /\ (cache[guild] = NoEntry /\ Row(guild) # NoRow) =>
                     last'.resp = RespCurrent(Row(guild).prefix)]_vars


\* C17 (SpecSeq), as claimed: after an administrator has set a prefix without
\* whitespace in a guild that had neither map entry nor row, the guild has
\* both, each with that prefix.
C17_FirstSetCreatesBoth ==
    (SetDone /\ last.fresh /\ ~HasWhitespace(last.prefix)) =>
        /\ cache[last.guild] # NoEntry /\ cache[last.guild].prefix = last.prefix
        /\ Row(last.guild) # NoRow /\ Row(last.guild).prefix = last.prefix


\* C18 (SpecLoop): a presence loop that has been started runs its publish again
\* and again, whether or not its updates reach the gateway, and a publish,
\* delivered or not, leaves the number of loops and every other loop as they are.
C18_LoopKeepsTicking ==
    /\ \A i \in 1..MaxTasks :
          /\ [](Len(loops) >= i => <>(Len(loops) >= i /\ loops[i].pc = "sleep"))
          /\ [](Len(loops) >= i => <>(Len(loops) >= i /\ loops[i].pc = "tick"))
    /\ [][\A i \in 1..Len(loops) :
             (loops[i].pc = "tick" /\ loops'[i].pc # "tick") =>
                 loops' = [loops EXCEPT ![i].pc = "sleep"]]_vars

\* The only loop is asleep after a publish that did not reach the gateway: no
\* status has been set yet.
C18_Witness ==
    Len(loops) = 1 /\ loops[1].pc = "sleep" /\ presence = NoPresence


\* Arguments that pass as a prefix: not empty once trimmed, no whitespace.
ValidArgs == {raw \in RawArgs : Trimmed(raw) # <<>> /\ ~HasWhitespace(Trimmed(raw))}

\* Prefix commands of administrators racing on guilds that joined once: every
\* guild_create is for a guild with neither entry nor row and runs alone,
\* every prefix command is for a guild that has both and carries a valid
\* argument, and every statement, permission lookup and send succeeds.
NextRace ==
    \/ \E id \in Workspaces, owner \in Users :
          Untracked(id) /\ GuildCreateInsert(id, owner, TRUE, TRUE)
    \/ \E r \in Records : GuildCreateCache(r)
    \/ \E guild \in Workspaces, author \in Users, raw \in ValidArgs :
          Tracked(guild) /\ PrefixSet(guild, author, TRUE, TRUE, raw, FALSE)
    \/ \E r \in Records : PrefixStoreUpdate(r, TRUE)
    \/ \E r \in Records : PrefixSetReply(r, TRUE)

SpecRace == Init /\ [][NextRace]_vars

\* C19 (SpecRace), as claimed: whenever every prefix command sent so far has
\* completed, each guild's prefix in the map is the prefix in its row, however
\* the steps of concurrent commands were interleaved.
C19_RacingSetsAgree ==
    Quiescent => \A w \in Workspaces : Tracked(w) => cache[w].prefix = Row(w).prefix


\* A prefix command writes the guild's prefix to the map and goes on to its UPDATE.
SetCacheStep(r) ==
    /\ r.kind = "prefix" /\ r.route = "set" /\ r.pc = "update"
    /\ CopiesIn(r, tasks') = CopiesIn(r, tasks) + 1
\* A prefix command's UPDATE executes and the command ends.
SetStoreStep(r) ==
    /\ r.kind = "prefix" /\ r.route = "set" /\ r.pc = "update"
    /\ CopiesIn(r, tasks') = CopiesIn(r, tasks) - 1
\* A prefix command sends its confirmation and ends.
SetReplyStep(r) ==
    /\ r.kind = "prefix" /\ r.route = "set" /\ r.pc = "reply"
    /\ CopiesIn(r, tasks') = CopiesIn(r, tasks) - 1

\* C20 (SpecSeq): a prefix command that succeeds in a guild with a map entry
\* changes the entry's prefix and nothing else of the entry (owner_id,
\* mute_type and mute_role stay), changes the prefix column of the guild's row
\* and nothing else of the row, and leaves the entries and rows of every
\* other guild as they were.
C20_OnlyThePrefixChanges ==
    [][/\ \A r \in BagToSet(tasks') :
            (SetCacheStep(r) /\ cache[r.guild] # NoEntry) =>
                /\ cache' = [cache EXCEPT ![r.guild].prefix = r.prefix]
                /\ store' = store
       /\ \A r \in BagToSet(tasks) :
            (SetStoreStep(r) /\ cache[r.guild] # NoEntry) =>
                /\ cache' = cache
                /\ \A k \in StoreKeys \ {ToI64(r.guild)} : store'[k] = store[k]
                /\ IF Row(r.guild) = NoRow
                   THEN store' = store
                   ELSE store' = [store EXCEPT ![ToI64(r.guild)].prefix = r.prefix]
       /\ \A r \in BagToSet(tasks) :
            SetReplyStep(r) => (cache' = cache /\ store' = store)]_vars

\* A prefix command is between its two writes in a guild that had entry and
\* row, while the other guild has its entry and row as well.
C20_Witness ==
    /\ \E r \in Records : r.kind = "prefix" /\ r.route = "set" /\ r.tracked
    /\ \A w \in Workspaces : Tracked(w)

====
